---- MODULE Spec2Model ----
(***************************************************************************)
(* Model of fractal_faim_hcs.md_create_ome_zarr: the task that converts an *)
(* MD Image Xpress acquisition into an OME-Zarr plate and attaches the ROI *)
(* tables of every well.  One invocation is a straight-line sequence of    *)
(* steps; the program counter pc names the source line the call is at.     *)
(* The destination file system persists between invocations.               *)
(***************************************************************************)
EXTENDS Integers, Sequences, FiniteSets, TLC

\* ------------------------------------------------------------------ bounds
\* Number of invocations of the task in one behaviour.
MaxRuns == 2
\* Number of wells the image directory can hold.
MaxWells == 2

\* ---------------------------------------------------------------- constants
\* Well names as character sequences ("A01" is <<"A","0","1">>).
AllWellNames == << <<"A", "0", "1">>, <<"A", "0", "2">>, <<"B", "0", "1">> >>

WellIdx == 1..(IF MaxWells < Len(AllWellNames) THEN MaxWells ELSE Len(AllWellNames))

\* The members of ModeEnum: name -> value.
ModeEnum == [StackAcquisition       |-> "MD Stack Acquisition",
             SinglePlaneAcquisition |-> "MD Single Plane Acquisition",
             MixedAcquisition       |-> "MixedAcquisition"]

ModeValues == {ModeEnum[n] : n \in DOMAIN ModeEnum}

\* Values a caller may pass for mode and layout.
ModeInputs == ModeValues \cup {"BadMode"}

LayoutInputs == {96, 384, 12}

\* The members of PlateLayout the task documents ("Valid options are 96 and 384").
PlateLayoutValues == {96, 384}

ZarrNames == {"Plate"}

\* Resolution levels written for one image.
Levels == {"0", "1"}

\* Table names create_ROI_tables produces for one well, in key order.
ROITableNames == <<"FOV_ROI_table", "well_ROI_table">>

\* ------------------------------------------------------------------ helpers
IsPrefix(p, q) == Len(p) <= Len(q) /\ SubSeq(q, 1, Len(p)) = p

\* Variant: only the root directory entry is removed.
rmtree_rootonly(f, root) == [p \in {q \in DOMAIN f : q # root} |-> f[p]]

\* shutil.rmtree(root): every node at or below root is gone.
rmtree(f, root) == [p \in {q \in DOMAIN f : ~IsPrefix(root, q)} |-> f[p]]

\* Writing nodes: every node of P is (re)written by run tag.
WriteNodes(f, P, tag) == [p \in (DOMAIN f) \cup P |-> IF p \in P THEN tag ELSE f[p]]

\* require_group: nodes of P that are missing are created, the others kept.
RequireNodes(f, P, tag) ==
    [p \in (DOMAIN f) \cup P |-> IF p \in DOMAIN f THEN f[p] ELSE tag]

exists(f, p) == p \in DOMAIN f

\* zarr_name + ".zarr", below zarr_dir.
PlateName(zarr_name) == <<zarr_name, ".zarr">>

PlateRoot(zarr_name) == <<PlateName(zarr_name)>>

\* WellAcquisition.get_row_col: the row letter and the rest of the name.
get_row_col(name) == <<name[1], SubSeq(name, 2, Len(name))>>

RECURSIVE SeqOfIdx(_, _)
SeqOfIdx(S, k) ==
    IF k > Len(AllWellNames) THEN <<>>
    ELSE (IF k \in S THEN <<AllWellNames[k]>> ELSE <<>>) \o SeqOfIdx(S, k + 1)

\* The wells found in an image directory, in registration order.
Acquisitions == {SeqOfIdx(S, 1) : S \in SUBSET WellIdx}

Range(s) == {s[k] : k \in 1..Len(s)}

\* f"{plate_name}/{row}/{col}" and f"{well_path}/{well_sub_group}" as node paths.
WellPath(plate_name, rc) == <<plate_name, rc[1], rc[2]>>

ImagePath(well_path, sub_group) == Append(well_path, sub_group)

\* The hard-coded well sub group, as passed to converter.run and as used
\* when the tables are attached.
run_well_sub_group == "0"

\* Variant: the tables are addressed at another sub group.
tables_well_sub_group_other == "1"

tables_well_sub_group == "0"

\* Nodes of one converted image: its groups, its pyramid, its tables.
GroupNodes(plate_name, name, sub) ==
    LET rc == get_row_col(name)
        wp == WellPath(plate_name, rc)
    IN  {<<plate_name, rc[1]>>, wp, ImagePath(wp, sub)}

LevelNodes(image) == {Append(image, l) : l \in Levels}

TablesGroup(image) == Append(image, "tables")

TablePath(image, table_name) == Append(TablesGroup(image), table_name)

IsTable(p) == Len(p) = 6 /\ p[5] = "tables"

EmptyFS == [p \in {} |-> 0]

\* A plate left behind by an earlier conversion of the wells ws (tag 0),
\* beside an unrelated plate in the same zarr_dir.
OldStore(zarr_name, ws) ==
    LET pn == PlateName(zarr_name)
        img(w) == ImagePath(WellPath(pn, get_row_col(w)), "0")
        nodes == {<<pn>>, <<PlateName("Other")>>}
                 \cup UNION {GroupNodes(pn, w, "0") : w \in ws}
                 \cup UNION {LevelNodes(img(w)) : w \in ws}
                 \cup {TablesGroup(img(w)) : w \in ws}
                 \cup {TablePath(img(w), ROITableNames[k]) :
                          w \in ws, k \in 1..Len(ROITableNames)}
    IN  [p \in nodes |-> 0]

InitialStores ==
    {EmptyFS} \cup {OldStore(z, Range(a)) : z \in ZarrNames, a \in Acquisitions}

\* ------------------------------------------------------------------- state
VARIABLES
    fs,                \* destination file system below zarr_dir: node path -> run that wrote it
    image_dir,         \* wells of the acquisition found in image_dir
    run,               \* number of the current invocation
    pc,                \* position of the current invocation
    args,              \* arguments of the current invocation
    fs0,               \* fs when the current invocation started
    mode,              \* local: mode (raw value, then ModeEnum member)
    layout,            \* local: layout
    plate_acquisition, \* local: parsed acquisition
    client,            \* local: distributed.Client of this invocation
    live_clients,      \* clients of this process that are running
    plate,             \* local: zarr group of the plate root
    conv_i,            \* converter.run: index of the well being converted
    stage,             \* converter.run: stage of that well
    well_paths,        \* local
    image_paths,       \* local
    roi_tables,        \* local: well name -> table names
    loop_i,            \* index of the well of the table loop
    image_group,       \* local: image node the tables are written to
    todo,              \* table names of the current well still to be written
    result,            \* return value of the invocation
    exc,               \* exception the invocation ended with
    n_rmtree,          \* recursive deletions made by the current invocation
    prev               \* the invocation before the current one, if it completed

vars == <<fs, image_dir, run, pc, args, fs0, mode, layout, plate_acquisition,
          client, live_clients, plate, conv_i, stage, well_paths, image_paths,
          roi_tables, loop_i, image_group, todo, result, exc, n_rmtree, prev>>

Args == [zarr_name : ZarrNames, mode : ModeInputs, layout : LayoutInputs,
         overwrite : BOOLEAN]

NoAcquisition == [strategy |-> "none", alignment |-> "none", wells |-> <<>>]

NoResult == [is_none |-> TRUE, plate |-> <<>>, well |-> <<>>, image |-> <<>>]

NoPrev == [valid |-> FALSE, args |-> [zarr_name |-> "", mode |-> "", layout |-> 0,
                                      overwrite |-> FALSE],
           wells |-> {}, images |-> {}, tables |-> {}]

\* Well, image and table paths present below a plate.
Wells(f, plate_name) == {p \in DOMAIN f : Len(p) = 3 /\ p[1] = plate_name}

Images(f, plate_name) == {p \in DOMAIN f : Len(p) = 4 /\ p[1] = plate_name}

Tables(f, plate_name) == {p \in DOMAIN f : IsTable(p) /\ p[1] = plate_name}

Locals(a) ==
    /\ mode' = a.mode
    /\ layout' = a.layout
    /\ plate_acquisition' = NoAcquisition
    /\ client' = "none"
    /\ plate' = <<>>
    /\ conv_i' = 0
    /\ stage' = "none"
    /\ well_paths' = <<>>
    /\ image_paths' = <<>>
    /\ roi_tables' = <<>>
    /\ loop_i' = 0
    /\ image_group' = <<>>
    /\ todo' = <<>>
    /\ result' = NoResult
    /\ exc' = "none"
    /\ n_rmtree' = 0

Init ==
    /\ fs \in InitialStores
    /\ image_dir \in Acquisitions
    /\ run = 0
    /\ pc = "idle"
    /\ args = NoPrev.args
    /\ fs0 = fs
    /\ mode = ""
    /\ layout = 0
    /\ plate_acquisition = NoAcquisition
    /\ client = "none"
    /\ live_clients = 0
    /\ plate = <<>>
    /\ conv_i = 0
    /\ stage = "none"
    /\ well_paths = <<>>
    /\ image_paths = <<>>
    /\ roi_tables = <<>>
    /\ loop_i = 0
    /\ image_group = <<>>
    /\ todo = <<>>
    /\ result = NoResult
    /\ exc = "none"
    /\ n_rmtree = 0
    /\ prev = NoPrev

\* The exception e leaves the function: nothing is cleaned up on the way out.
Raise(e) == pc' = "raised" /\ exc' = e

\* ------------------------------------------------------------------ actions
\* A call md_create_ome_zarr(zarr_dir, image_dir, zarr_name, mode, layout, overwrite).
Invoke(a) ==
    /\ pc \in {"idle", "done", "raised"}
    /\ run < MaxRuns
    /\ run' = run + 1
    /\ args' = a
    /\ fs0' = fs
    /\ prev' = IF pc = "done"
               THEN [valid |-> TRUE, args |-> args,
                     wells  |-> Wells(fs, PlateName(args.zarr_name)),
                     images |-> Images(fs, PlateName(args.zarr_name)),
                     tables |-> Tables(fs, PlateName(args.zarr_name))]
               ELSE NoPrev
    /\ pc' = "mode"
    /\ Locals(a)
    /\ UNCHANGED <<fs, image_dir, live_clients>>

\* Variant: the mode is not checked against ModeEnum.
ValidateMode_NoCheck ==
    /\ pc = "mode"
    /\ mode' = IF mode \in ModeValues
               THEN CHOOSE n \in DOMAIN ModeEnum : ModeEnum[n] = mode
               ELSE mode
    /\ pc' = "layout"
    /\ UNCHANGED <<fs, image_dir, run, args, fs0, layout, plate_acquisition,
                   client, live_clients, plate, conv_i, stage, well_paths,
                   image_paths, roi_tables, loop_i, image_group, todo, result,
                   exc, n_rmtree, prev>>

\* mode = ModeEnum(mode)
ValidateMode ==
    /\ pc = "mode"
    /\ IF mode \in ModeValues
       THEN /\ mode' = CHOOSE n \in DOMAIN ModeEnum : ModeEnum[n] = mode
            /\ pc' = "layout"
            /\ exc' = exc
       ELSE /\ Raise("ConfigurationError")
            /\ mode' = mode
    /\ UNCHANGED <<fs, image_dir, run, args, fs0, layout, plate_acquisition,
                   client, live_clients, plate, conv_i, stage, well_paths,
                   image_paths, roi_tables, loop_i, image_group, todo, result,
                   n_rmtree, prev>>

\* Variant: the layout is not checked against PlateLayout.
ValidateLayout_NoCheck ==
    /\ pc = "layout"
    /\ pc' = "overwrite"
    /\ UNCHANGED <<fs, image_dir, run, args, fs0, mode, layout, plate_acquisition,
                   client, live_clients, plate, conv_i, stage, well_paths,
                   image_paths, roi_tables, loop_i, image_group, todo, result,
                   exc, n_rmtree, prev>>

\* layout = PlateLayout(layout)
ValidateLayout ==
    /\ pc = "layout"
    /\ IF layout \in PlateLayoutValues
       THEN pc' = "overwrite" /\ exc' = exc
       ELSE Raise("ConfigurationError")
    /\ UNCHANGED <<fs, image_dir, run, args, fs0, mode, layout, plate_acquisition,
                   client, live_clients, plate, conv_i, stage, well_paths,
                   image_paths, roi_tables, loop_i, image_group, todo, result,
                   n_rmtree, prev>>

\* Variant: the existing plate is never removed.
Overwrite_NoDelete ==
    /\ pc = "overwrite"
    /\ pc' = "parse"
    /\ UNCHANGED <<fs, image_dir, run, args, fs0, mode, layout, plate_acquisition,
                   client, live_clients, plate, conv_i, stage, well_paths,
                   image_paths, roi_tables, loop_i, image_group, todo, result,
                   exc, n_rmtree, prev>>

\* Variant: an existing plate is removed whatever the overwrite flag says.
Overwrite_IgnoreFlag ==
    /\ pc = "overwrite"
    /\ IF exists(fs, PlateRoot(args.zarr_name))
       THEN /\ fs' = rmtree(fs, PlateRoot(args.zarr_name))
            /\ n_rmtree' = n_rmtree + 1
       ELSE UNCHANGED <<fs, n_rmtree>>
    /\ pc' = "parse"
    /\ UNCHANGED <<image_dir, run, args, fs0, mode, layout, plate_acquisition,
                   client, live_clients, plate, conv_i, stage, well_paths,
                   image_paths, roi_tables, loop_i, image_group, todo, result,
                   exc, prev>>

\* if overwrite and exists(join(zarr_dir, zarr_name + ".zarr")): shutil.rmtree(...)
Overwrite ==
    /\ pc = "overwrite"
    /\ IF args.overwrite /\ exists(fs, PlateRoot(args.zarr_name))
       THEN /\ fs' = rmtree(fs, PlateRoot(args.zarr_name))
            /\ n_rmtree' = n_rmtree + 1
       ELSE UNCHANGED <<fs, n_rmtree>>
    /\ pc' = "parse"
    /\ UNCHANGED <<image_dir, run, args, fs0, mode, layout, plate_acquisition,
                   client, live_clients, plate, conv_i, stage, well_paths,
                   image_paths, roi_tables, loop_i, image_group, todo, result,
                   exc, prev>>

\* The if/elif chain over mode that builds plate_acquisition.
ParseAcquisition ==
    /\ pc = "parse"
    /\ IF mode = "StackAcquisition"
       THEN /\ plate_acquisition' = [strategy |-> "StackAcquisition",
                                     alignment |-> "GRID", wells |-> image_dir]
            /\ pc' = "client" /\ exc' = exc
       ELSE IF mode = "SinglePlaneAcquisition"
       THEN /\ plate_acquisition' = [strategy |-> "SinglePlaneAcquisition",
                                     alignment |-> "GRID", wells |-> image_dir]
            /\ pc' = "client" /\ exc' = exc
       ELSE IF mode = "MixedAcquisition"
       THEN /\ plate_acquisition' = [strategy |-> "MixedAcquisition",
                                     alignment |-> "GRID", wells |-> image_dir]
            /\ pc' = "client" /\ exc' = exc
       ELSE /\ Raise("NotImplementedError")
            /\ plate_acquisition' = plate_acquisition
    /\ UNCHANGED <<fs, image_dir, run, args, fs0, mode, layout, client,
                   live_clients, plate, conv_i, stage, well_paths, image_paths,
                   roi_tables, loop_i, image_group, todo, result, n_rmtree, prev>>

\* client = distributed.Client(n_workers=1, threads_per_worker=1, processes=False)
\* and the converter built around it.
CreateClient ==
    /\ pc = "client"
    /\ client' = "running"
    /\ live_clients' = live_clients + 1
    /\ pc' = "create_plate"
    /\ UNCHANGED <<fs, image_dir, run, args, fs0, mode, layout, plate_acquisition,
                   plate, conv_i, stage, well_paths, image_paths, roi_tables,
                   loop_i, image_group, todo, result, exc, n_rmtree, prev>>

\* Variant: the tables are attached without converter.run having run first.
CreateZarrPlate_SkipRun ==
    /\ pc = "create_plate"
    /\ fs' = RequireNodes(fs, {PlateRoot(args.zarr_name)}, run)
    /\ plate' = PlateRoot(args.zarr_name)
    /\ pc' = "tables"
    /\ UNCHANGED <<image_dir, run, args, fs0, mode, layout, plate_acquisition,
                   client, live_clients, conv_i, stage, well_paths, image_paths,
                   roi_tables, loop_i, image_group, todo, result, exc, n_rmtree,
                   prev>>

\* plate = converter.create_zarr_plate(plate_acquisition); well_sub_group = "0"
CreateZarrPlate ==
    /\ pc = "create_plate"
    /\ fs' = RequireNodes(fs, {PlateRoot(args.zarr_name)}, run)
    /\ plate' = PlateRoot(args.zarr_name)
    /\ pc' = "run"
    /\ conv_i' = 1
    /\ stage' = "group"
    /\ UNCHANGED <<image_dir, run, args, fs0, mode, layout, plate_acquisition,
                   client, live_clients, well_paths, image_paths, roi_tables,
                   loop_i, image_group, todo, result, exc, n_rmtree, prev>>

\* ---- converter.run(plate, plate_acquisition, well_sub_group): one well at a
\* ---- time, in registration order, on the single worker of the client.  The
\* ---- converter is faim_ipa's (an external package); its steps follow the
\* ---- PyramidConversionEngine contract of the specification.
CurrentWell == plate_acquisition.wells[conv_i]

ConverterImage(name) ==
    ImagePath(WellPath(PlateName(args.zarr_name), get_row_col(name)),
              run_well_sub_group)

RunUnchanged ==
    UNCHANGED <<image_dir, run, args, fs0, mode, layout, plate_acquisition,
                client, live_clients, plate, well_paths, image_paths,
                roi_tables, loop_i, image_group, todo, result, n_rmtree, prev>>

\* The row, well and image groups of the well are created if missing.
RunCreateWellGroup ==
    /\ pc = "run" /\ conv_i <= Len(plate_acquisition.wells) /\ stage = "group"
    /\ fs' = RequireNodes(fs, GroupNodes(PlateName(args.zarr_name), CurrentWell,
                                         run_well_sub_group), run)
    /\ stage' = "warp"
    /\ UNCHANGED <<pc, conv_i, exc>>
    /\ RunUnchanged

\* warp_func: the tiles are translated into a common frame.
RunWarp ==
    /\ pc = "run" /\ stage = "warp"
    /\ stage' = "fuse"
    /\ UNCHANGED <<fs, pc, conv_i, exc>>
    /\ RunUnchanged

\* fuse_func: overlapping tiles are mean-fused.
RunFuse ==
    /\ pc = "run" /\ stage = "fuse"
    /\ stage' = "pyramid"
    /\ UNCHANGED <<fs, pc, conv_i, exc>>
    /\ RunUnchanged

\* The pyramid is built by yx_binning.
RunBuildPyramid ==
    /\ pc = "run" /\ stage = "pyramid"
    /\ stage' = "write"
    /\ UNCHANGED <<fs, pc, conv_i, exc>>
    /\ RunUnchanged

\* The pyramid is written into the image node; the write may fail.
RunWritePyramid(ok) ==
    /\ pc = "run" /\ stage = "write"
    /\ IF ok
       THEN /\ fs' = WriteNodes(fs, LevelNodes(ConverterImage(CurrentWell)), run)
            /\ conv_i' = conv_i + 1
            /\ stage' = "group"
            /\ UNCHANGED <<pc, exc>>
       ELSE /\ Raise("FilesystemError")
            /\ UNCHANGED <<fs, conv_i, stage>>
    /\ RunUnchanged

\* converter.run returns once every well has been written.
RunReturn ==
    /\ pc = "run" /\ conv_i > Len(plate_acquisition.wells) /\ stage = "group"
    /\ pc' = "tables"
    /\ stage' = "none"
    /\ UNCHANGED <<fs, conv_i, exc>>
    /\ RunUnchanged

\* create_ROI_tables: one entry per well name, each with the table names.
create_ROI_tables(acq) == [n \in Range(acq.wells) |-> ROITableNames]

\* plate_name, well_paths, image_paths, well_sub_group, well_acquisitions, roi_tables
PrepareTables ==
    /\ pc = "tables"
    /\ well_paths' = <<>>
    /\ image_paths' = <<>>
    /\ roi_tables' = create_ROI_tables(plate_acquisition)
    /\ loop_i' = 1
    /\ pc' = "loop"
    /\ UNCHANGED <<fs, image_dir, run, args, fs0, mode, layout, plate_acquisition,
                   client, live_clients, plate, conv_i, stage, image_group, todo,
                   result, exc, n_rmtree, prev>>

\* One pass of "for well_acquisition in well_acquisitions" up to the table loop.
LoopWell ==
    /\ pc = "loop"
    /\ IF loop_i > Len(plate_acquisition.wells)
       THEN /\ pc' = "return"
            /\ UNCHANGED <<well_paths, image_paths, image_group, todo, exc>>
       ELSE LET name == plate_acquisition.wells[loop_i]
                well_rc == get_row_col(name)
                well_path == WellPath(PlateName(args.zarr_name), well_rc)
                image_path == ImagePath(well_path, tables_well_sub_group)
                group == plate \o <<well_rc[1], well_rc[2], tables_well_sub_group>>
            IN  /\ well_paths' = Append(well_paths, well_path)
                /\ image_paths' = Append(image_paths, image_path)
                /\ IF ~exists(fs, group) \/ name \notin DOMAIN roi_tables
                   THEN /\ Raise("KeyError")
                        /\ UNCHANGED <<image_group, todo>>
                   ELSE /\ image_group' = group
                        /\ todo' = roi_tables[name]
                        /\ pc' = "write"
                        /\ exc' = exc
    /\ UNCHANGED <<fs, image_dir, run, args, fs0, mode, layout, plate_acquisition,
                   client, live_clients, plate, conv_i, stage, roi_tables, loop_i,
                   result, n_rmtree, prev>>

\* fractal_tasks_core.tables.write_table (an external package; its contract is
\* the MetadataWriter of the specification): the tables group is created if
\* missing; an existing table is an error unless overwrite; the write may fail.
write_table(f, group, table_name, overwrite, ok, tag) ==
    LET g == RequireNodes(f, {TablesGroup(group)}, tag)
    IN  IF exists(g, TablePath(group, table_name)) /\ ~overwrite
        THEN [fs |-> g, exc |-> "MetadataConflictError"]
        ELSE IF ~ok
        THEN [fs |-> g, exc |-> "FilesystemError"]
        ELSE [fs |-> WriteNodes(g, {TablePath(group, table_name)}, tag),
              exc |-> "none"]

\* Variant: every table is written with overwrite=True.
WriteTable_ForceOverwrite(ok) ==
    /\ pc = "write"
    /\ IF todo = <<>>
       THEN /\ loop_i' = loop_i + 1
            /\ pc' = "loop"
            /\ UNCHANGED <<fs, todo, exc>>
       ELSE LET r == write_table(fs, image_group, Head(todo), TRUE, ok, run)
            IN  /\ fs' = r.fs
                /\ IF r.exc = "none"
                   THEN /\ todo' = Tail(todo)
                        /\ UNCHANGED <<pc, exc>>
                   ELSE /\ Raise(r.exc)
                        /\ todo' = todo
                /\ loop_i' = loop_i
    /\ UNCHANGED <<image_dir, run, args, fs0, mode, layout, plate_acquisition,
                   client, live_clients, plate, conv_i, stage, well_paths,
                   image_paths, roi_tables, image_group, result, n_rmtree, prev>>

\* One pass of "for table_name in tables", or the end of that loop.
WriteTable(ok) ==
    /\ pc = "write"
    /\ IF todo = <<>>
       THEN /\ loop_i' = loop_i + 1
            /\ pc' = "loop"
            /\ UNCHANGED <<fs, todo, exc>>
       ELSE LET r == write_table(fs, image_group, Head(todo), args.overwrite, ok, run)
            IN  /\ fs' = r.fs
                /\ IF r.exc = "none"
                   THEN /\ todo' = Tail(todo)
                        /\ UNCHANGED <<pc, exc>>
                   ELSE /\ Raise(r.exc)
                        /\ todo' = todo
                /\ loop_i' = loop_i
    /\ UNCHANGED <<image_dir, run, args, fs0, mode, layout, plate_acquisition,
                   client, live_clients, plate, conv_i, stage, well_paths,
                   image_paths, roi_tables, image_group, result, n_rmtree, prev>>

\* The function ends: the metadata update is commented out, nothing is returned.
Return ==
    /\ pc = "return"
    /\ result' = NoResult
    /\ pc' = "done"
    /\ UNCHANGED <<fs, image_dir, run, args, fs0, mode, layout, plate_acquisition,
                   client, live_clients, plate, conv_i, stage, well_paths,
                   image_paths, roi_tables, loop_i, image_group, todo, exc,
                   n_rmtree, prev>>

Next ==
    \/ \E a \in Args : Invoke(a)
    \/ ValidateMode
    \/ ValidateLayout
    \/ Overwrite
    \/ ParseAcquisition
    \/ CreateClient
    \/ CreateZarrPlate
    \/ RunCreateWellGroup
    \/ RunWarp
    \/ RunFuse
    \/ RunBuildPyramid
    \/ \E ok \in BOOLEAN : RunWritePyramid(ok)
    \/ RunReturn
    \/ PrepareTables
    \/ LoopWell
    \/ \E ok \in BOOLEAN : WriteTable(ok)
    \/ Return

Spec == Init /\ [][Next]_vars

\* ------------------------------------------------------------- properties
PlateExisted == exists(fs0, PlateRoot(args.zarr_name))

UnderPlate(f) == {p \in DOMAIN f : p[1] = <<args.zarr_name, ".zarr">>}

\* The image node of well name w, spelled out: plate / row / column / "0".
ExpectedImage(w) ==
    <<<<args.zarr_name, ".zarr">>, w[1], SubSeq(w, 2, Len(w)), "0">>

PyramidWrittenByThisRun(w) ==
    \A l \in {"0", "1"} :
        /\ Append(ExpectedImage(w), l) \in DOMAIN fs
        /\ fs[Append(ExpectedImage(w), l)] = run

\* Positions of a call that has passed the overwrite block.
PastOverwrite ==
    \/ pc \in {"parse", "client", "create_plate", "run", "tables", "loop",
               "write", "return", "done"}
    \/ pc = "raised" /\ exc # "ConfigurationError"

\* Positions of a call that has built plate_acquisition.
PastParse ==
    \/ pc \in {"client", "create_plate", "run", "tables", "loop", "write",
               "return", "done"}
    \/ pc = "raised" /\ exc \notin {"ConfigurationError", "NotImplementedError"}

\* C1: a call whose layout is neither 96 nor 384 ends in a configuration
\* error before any file system mutation: nothing is deleted, no plate root
\* is created, no client is started, no table is written.
C1_LayoutRejectedBeforeIO ==
    (pc # "idle" /\ args.layout \notin {96, 384}) =>
        /\ pc \in {"mode", "layout", "raised"}
        /\ (pc = "raised" => exc = "ConfigurationError")
        /\ fs = fs0
        /\ n_rmtree = 0
        /\ client = "none"
        /\ plate = <<>>

C1_Witness ==
    /\ pc = "raised" /\ args.layout = 12 /\ args.mode = "MD Stack Acquisition"
    /\ args.overwrite /\ PlateExisted /\ Cardinality(DOMAIN fs) > 2

C3_OverwriteAllOrNothing ==
    (PastOverwrite /\ args.overwrite /\ PlateExisted) =>
        /\ \A p \in UnderPlate(fs) : fs[p] = run
        /\ pc \in {"parse", "client", "create_plate"} => UnderPlate(fs) = {}
        /\ n_rmtree = 1

C3_Witness ==
    /\ pc = "done" /\ args.overwrite /\ PlateExisted
    /\ Len(image_dir) = 1
    /\ \E p \in UnderPlate(fs0) : Len(p) = 3 /\ p \notin DOMAIN fs
    /\ \E p \in UnderPlate(fs) : IsTable(p)

\* C4: a completed run returns the metadata summary with one well path and
\* one image path for every well of the acquisition.
C4_ReturnsPathLists ==
    pc = "done" =>
        /\ ~result.is_none
        /\ result.well = [k \in 1..Len(image_dir) |->
                             SubSeq(ExpectedImage(image_dir[k]), 1, 3)]
        /\ result.image = [k \in 1..Len(image_dir) |-> ExpectedImage(image_dir[k])]

\* C5: the pixel conversion of every well has finished before the first ROI
\* table of any well is attached: a table written by this run implies that
\* the pyramid of every well was written by this run, and the table phase is
\* only entered after converter.run has gone through all wells.
C5_ConversionBeforeTables ==
    /\ \A p \in DOMAIN fs :
            (IsTable(p) /\ run > 0 /\ fs[p] = run) =>
                \A w \in Range(image_dir) : PyramidWrittenByThisRun(w)
    /\ pc \in {"tables", "loop", "write", "return", "done"} =>
            /\ conv_i = Len(image_dir) + 1
            /\ stage = "none"
            /\ \A w \in Range(image_dir) : PyramidWrittenByThisRun(w)

C5_Witness ==
    /\ pc = "write" /\ Len(image_dir) = 2 /\ loop_i = 1 /\ Len(todo) = 1
    /\ \E p \in DOMAIN fs : IsTable(p) /\ fs[p] = run

\* C6: the node the tables of a well are attached to is the image node the
\* conversion created for that well (plate / row / column / "0"); the lookup
\* of the node and of the well's tables never fails.
C6_PathAgreement ==
    /\ exc # "KeyError"
    /\ pc = "write" =>
            /\ image_group \in DOMAIN fs
            /\ image_group = ExpectedImage(image_dir[loop_i])
            /\ PyramidWrittenByThisRun(image_dir[loop_i])
            /\ image_paths[loop_i] = image_group
    /\ pc \in {"loop", "write", "return", "done"} =>
            \A k \in 1..Len(image_dir) : image_dir[k] \in DOMAIN roi_tables

C6_Witness ==
    /\ pc = "write" /\ loop_i = 2 /\ todo # <<>>
    /\ image_group = <<<<"Plate", ".zarr">>, "A", <<"0", "2">>, "0">>

\* C7: a table write with overwrite=false onto an existing table of the same
\* name raises the conflict error and leaves that table as it was; the
\* pipeline hands its own overwrite flag to the write, so with overwrite=false
\* no existing table is ever changed and with overwrite=true no conflict is
\* raised.
C7_TableConflict ==
    [][ /\ (/\ pc = "write" /\ todo # <<>> /\ ~args.overwrite
            /\ Append(Append(image_group, "tables"), Head(todo)) \in DOMAIN fs) =>
               LET tp == Append(Append(image_group, "tables"), Head(todo))
               IN  /\ pc' = "raised"
                   /\ exc' = "MetadataConflictError"
                   /\ tp \in DOMAIN fs'
                   /\ fs'[tp] = fs[tp]
        /\ (run' = run /\ ~args.overwrite) =>
               \A p \in DOMAIN fs : IsTable(p) => (p \in DOMAIN fs' /\ fs'[p] = fs[p])
        /\ (run' = run /\ args.overwrite) => exc' # "MetadataConflictError"
      ]_vars

C7_Witness ==
    /\ pc = "raised" /\ exc = "MetadataConflictError" /\ ~args.overwrite
    /\ loop_i = 2
    /\ \E p \in DOMAIN fs0 : IsTable(p) /\ SubSeq(p, 1, 4) = image_group /\ fs[p] < run

\* C8: two consecutive completed runs with identical arguments and
\* overwrite=true leave the same well paths, image paths and table paths,
\* with exactly one image path for every well of the acquisition.
C8_IdempotentOverwrite ==
    (pc = "done" /\ prev.valid /\ prev.args = args /\ args.overwrite) =>
        LET pn == <<args.zarr_name, ".zarr">>
        IN  /\ Wells(fs, pn) = prev.wells
            /\ Images(fs, pn) = prev.images
            /\ Tables(fs, pn) = prev.tables
            /\ Images(fs, pn) = {ExpectedImage(w) : w \in Range(image_dir)}
            /\ Cardinality(Images(fs, pn)) = Len(image_dir)
            /\ \A w \in Wells(fs, pn) :
                   Cardinality({p \in Images(fs, pn) : SubSeq(p, 1, 3) = w}) = 1

C8_Witness ==
    /\ pc = "done" /\ prev.valid /\ prev.args = args /\ args.overwrite
    /\ Len(image_dir) = 2 /\ run = 2
    /\ Cardinality(prev.tables) = 4

\* C9: the client created by a call is shut down by the time the call ends,
\* on normal completion and on an exception.
C9_ClientClosedOnExit ==
    pc \in {"done", "raised"} => (client # "running" /\ live_clients = 0)

\* C10: the recursive deletion happens only with overwrite=true and a plate
\* that exists at the start, at most once per run; with overwrite=false and an
\* existing plate the call neither deletes nor stops but goes on to plate
\* creation and conversion, so a table conflict is only raised after the
\* conversion has rewritten the existing store.
C10_DeletionOnlyOnOverwrite ==
    [][ /\ (\E p \in DOMAIN fs : p \notin DOMAIN fs') =>
               /\ pc = "overwrite" /\ args.overwrite /\ PlateExisted
               /\ n_rmtree = 0 /\ n_rmtree' = 1
               /\ \A p \in DOMAIN fs : p \notin DOMAIN fs' => p[1] = <<args.zarr_name, ".zarr">>
        /\ n_rmtree' <= 1
        /\ (pc = "overwrite" /\ PlateExisted /\ ~args.overwrite) =>
               (fs' = fs /\ pc' = "parse" /\ n_rmtree' = 0)
        /\ (exc' = "MetadataConflictError" /\ PlateExisted' /\ ~args'.overwrite) =>
               /\ fs' # fs0'
               /\ \A w \in Range(image_dir) :
                      \A l \in {"0", "1"} : fs'[Append(ExpectedImage(w), l)] = run'
      ]_vars

C10_Witness ==
    /\ exc = "MetadataConflictError" /\ PlateExisted /\ ~args.overwrite
    /\ n_rmtree = 0 /\ Len(image_dir) = 2

====
